---- MODULE Spec2Model ----
(***************************************************************************)
(* SkywarnPlus: one polling cycle per process (main.py: construct the      *)
(* application, run it once, leave the context manager), with the State    *)
(* file data.json carrying lastAlerts / lastSayAlert from one cycle to the *)
(* next.                                                                   *)
(*                                                                         *)
(* Values.  An event name is the sequence of its words, so that the        *)
(* substring tests of the code ("Warning" in event) are membership tests.  *)
(* A record carries its Python representation: rep = "AlertData" for the   *)
(* dataclass instances parse_alert_data builds, rep = "dict" for the       *)
(* objects json.load returns.  The two differ in what the code can do      *)
(* with them: rec["county_code"] needs a dict, rec.county_code needs an    *)
(* AlertData, json.dump needs a dict.                                      *)
(* An OrderedDict is a sequence of [type, recs] entries with distinct      *)
(* types.                                                                  *)
(***************************************************************************)
EXTENDS Integers, Sequences, FiniteSets, TLC

\* Largest number of entries ("features") in one zone's payload.
MaxEntries == 1

\* Largest number of AlertTypes in an argument of the alert_processor
\* functions applied on their own.
MaxTypes == 3

\* Largest number of entries in a zone's payload when the grouping of run
\* is applied on its own.
MaxFeatures == 2

\* Largest number of patterns in a blocklist.
MaxPatterns == 2

\* Latest wall-clock hour of an end time, counted from a fixed midnight.
MaxHour == 1

\* NWSAPIClient.__init__: the default of max_workers.
DefaultWorkers == 10

\* _get_session: Retry(total=3), the retries of one session.get.
retry_total == 3

\* county_configs: the configured zones, in configuration order.
Zones == <<"A", "B">>

ZoneSet == {Zones[i] : i \in DOMAIN Zones}

TornadoWarning == <<"Tornado", "Warning">>

FloodWatch == <<"Flood", "Watch">>

\* The event names the feed can carry.
Events == {TornadoWarning, FloodWatch}

\* data_types.py, constants.py: AlertSeverity values.
AlertSeverity ==
    [UNKNOWN |-> 0, MINOR |-> 1, MODERATE |-> 2, SEVERE |-> 3, EXTREME |-> 4]

API_SEVERITY_MAPPING ==
    [Extreme |-> AlertSeverity.EXTREME, Severe |-> AlertSeverity.SEVERE,
     Moderate |-> AlertSeverity.MODERATE, Minor |-> AlertSeverity.MINOR,
     Unknown |-> AlertSeverity.UNKNOWN]

\* A dict keeps insertion order: the words are tried in this order.
WORD_SEVERITY_MAPPING ==
    << <<"Warning", AlertSeverity.EXTREME>>, <<"Watch", AlertSeverity.SEVERE>>,
       <<"Advisory", AlertSeverity.MODERATE>>, <<"Statement", AlertSeverity.MINOR>> >>

\* properties.get('severity') when the provider sent none.
NoSeverity == "absent"

\* The value fetch_county_alerts returns for a zone whose fetch failed.
None == [kind |-> "None"]

\* A decoded response body: a dict with the key 'features'.
Payload(entries) == [kind |-> "payload", features |-> entries]

\* A raw feed entry (feature.properties), as far as the cycle reads it.
RawEntries == {[event |-> e, severity |-> NoSeverity] : e \in Events}

RECURSIVE SeqsUpTo(_, _)
SeqsUpTo(S, n) ==
    IF n = 0 THEN {<< >>}
    ELSE LET shorter == SeqsUpTo(S, n - 1)
         IN  shorter \cup {Append(s, x) : s \in {t \in shorter : Len(t) = n - 1}, x \in S}

\* What one zone's fetch can return.
ZoneResults == {None} \cup {Payload(es) : es \in SeqsUpTo(RawEntries, MaxEntries)}

(***************************************************************************)
(* OrderedDict helpers                                                     *)
(***************************************************************************)
Keys(d) == {d[i].type : i \in DOMAIN d}

\* d[k] for a key that is present.
Get(d, k) == d[CHOOSE i \in DOMAIN d : d[i].type = k].recs

\* d.setdefault(k, []).append(r)
AppendTo(d, k, r) ==
    IF k \in Keys(d)
    THEN [i \in DOMAIN d |->
             IF d[i].type = k THEN [type |-> k, recs |-> Append(d[i].recs, r)] ELSE d[i]]
    ELSE Append(d, [type |-> k, recs |-> <<r>>])

RECURSIVE SeqMax(_)
SeqMax(s) ==
    IF Len(s) = 1 THEN s[1]
    ELSE LET m == SeqMax(Tail(s)) IN IF s[1] >= m THEN s[1] ELSE m

CountyCodes(recs) == {recs[i].county_code : i \in DOMAIN recs}

(***************************************************************************)
(* alert_processor.py                                                      *)
(***************************************************************************)
WordIn(w, event) == \E i \in DOMAIN event : event[i] = w

RECURSIVE WordSeverity(_, _)
WordSeverity(event, i) ==
    IF i > Len(WORD_SEVERITY_MAPPING) THEN AlertSeverity.UNKNOWN
    ELSE IF WordIn(WORD_SEVERITY_MAPPING[i][1], event) THEN WORD_SEVERITY_MAPPING[i][2]
    ELSE WordSeverity(event, i + 1)

\* _determine_severity trying the words of the event name first.
determine_severity_words_first(properties) ==
    IF WordSeverity(properties.event, 1) # AlertSeverity.UNKNOWN
    THEN WordSeverity(properties.event, 1)
    ELSE IF properties.severity \in DOMAIN API_SEVERITY_MAPPING
         THEN API_SEVERITY_MAPPING[properties.severity]
         ELSE AlertSeverity.UNKNOWN

determine_severity(properties) ==
    IF properties.severity \in DOMAIN API_SEVERITY_MAPPING
    THEN API_SEVERITY_MAPPING[properties.severity]
    ELSE WordSeverity(properties.event, 1)

\* The texts of the 'ends' field of an entry and of end_time_utc: the empty
\* string, a text that is no date, and an ISO 8601 time of a wall-clock hour
\* and an offset from UTC in hours ("Z" is the offset 0).
EmptyString == [kind |-> "empty"]

Garbled == [kind |-> "garbled"]

TimeString(wall, offset) == [kind |-> "time", wall |-> wall, offset |-> offset]

\* dateutil's parser.parse: a datetime with the wall clock and the tzinfo of
\* the text, or ValueError.
parser_parse(text) ==
    IF text.kind = "time"
    THEN [raised |-> FALSE, wall |-> text.wall, tzinfo |-> text.offset]
    ELSE [raised |-> TRUE]

\* end_time.strftime("%Y-%m-%dT%H:%M:%S.%fZ"): the wall clock of the datetime
\* followed by the letter Z; no directive of the format reads tzinfo.
strftime(end_time) == TimeString(end_time.wall, 0)

\* parse_alert_data, lines 40-51: properties.get('ends') is None without the
\* key; None and "" are skipped, a parse error is logged.
end_time_utc(properties) ==
    IF "ends" \notin DOMAIN properties THEN EmptyString
    ELSE IF properties.ends = EmptyString THEN EmptyString
    ELSE LET end_time == parser_parse(properties.ends)
         IN  IF end_time.raised THEN EmptyString ELSE strftime(end_time)

AlertData(county_code, properties) ==
    [rep |-> "AlertData", county_code |-> county_code,
     severity |-> determine_severity(properties), event |-> properties.event,
     end_time_utc |-> end_time_utc(properties)]

\* parse_alert_data leaving out the entries whose end time it cannot read.
parse_alert_data_timed_only(api_data, county_code) ==
    IF api_data = None THEN << >>
    ELSE LET all == [i \in DOMAIN api_data.features |->
                        AlertData(county_code, api_data.features[i])]
         IN  SelectSeq(all, LAMBDA alert : alert.end_time_utc # EmptyString)

parse_alert_data(api_data, county_code) ==
    IF api_data = None THEN << >>
    ELSE [i \in DOMAIN api_data.features |-> AlertData(county_code, api_data.features[i])]

\* fnmatch.fnmatch on word sequences: "*" stands for any run of words, "?"
\* for one word, every other word for itself.
RECURSIVE fnmatch(_, _)
fnmatch(name, pattern) ==
    IF pattern = << >> THEN name = << >>
    ELSE IF pattern[1] = "*"
         THEN \/ fnmatch(name, Tail(pattern))
              \/ name # << >> /\ fnmatch(Tail(name), pattern)
         ELSE /\ name # << >>
              /\ pattern[1] = "?" \/ name[1] = pattern[1]
              /\ fnmatch(Tail(name), Tail(pattern))

\* filter_blocked_alerts consulting the first pattern only.
RECURSIVE filter_first_pattern_only(_, _)
filter_first_pattern_only(alerts, blocked_events) ==
    IF alerts = << >> THEN << >>
    ELSE LET rest == filter_first_pattern_only(Tail(alerts), blocked_events)
             is_blocked == /\ blocked_events # << >>
                           /\ fnmatch(alerts[1].type, blocked_events[1])
         IN  IF is_blocked THEN rest ELSE <<alerts[1]>> \o rest

RECURSIVE filter_blocked_alerts(_, _)
filter_blocked_alerts(alerts, blocked_events) ==
    IF alerts = << >> THEN << >>
    ELSE LET rest == filter_blocked_alerts(Tail(alerts), blocked_events)
             is_blocked == \E i \in DOMAIN blocked_events :
                               fnmatch(alerts[1].type, blocked_events[i])
         IN  IF is_blocked THEN rest ELSE <<alerts[1]>> \o rest

MaxSeverity(entry) == SeqMax([i \in DOMAIN entry.recs |-> entry.recs[i].severity])

\* An entry goes before the entries of equal key: a sort that is not stable.
RECURSIVE InsertBeforeEqual(_, _)
InsertBeforeEqual(sorted, entry) ==
    IF sorted = << >> THEN <<entry>>
    ELSE IF MaxSeverity(sorted[1]) > MaxSeverity(entry)
         THEN <<sorted[1]>> \o InsertBeforeEqual(Tail(sorted), entry)
         ELSE <<entry>> \o sorted

\* list.sort(key, reverse=True) is stable: an entry goes behind every entry
\* whose key is not smaller.
RECURSIVE InsertBySeverity(_, _)
InsertBySeverity(sorted, entry) ==
    IF sorted = << >> THEN <<entry>>
    ELSE IF MaxSeverity(sorted[1]) >= MaxSeverity(entry)
         THEN <<sorted[1]>> \o InsertBySeverity(Tail(sorted), entry)
         ELSE <<entry>> \o sorted

RECURSIVE SortFrom(_, _)
SortFrom(alerts, sorted) ==
    IF alerts = << >> THEN sorted
    ELSE SortFrom(Tail(alerts), InsertBySeverity(sorted, alerts[1]))

sort_alerts_by_severity(alerts) == SortFrom(alerts, << >>)

\* info["county_code"]: only a dict can be subscripted.
Subscriptable(recs) == \A i \in DOMAIN recs : recs[i].rep = "dict"

\* The alert names whose two county sets are compared.
InBoth(old_alerts, new_alerts) == Keys(new_alerts) \cap Keys(old_alerts)

detect_county_changes(old_alerts, new_alerts) ==
    IF \E n \in InBoth(old_alerts, new_alerts) :
           ~Subscriptable(Get(old_alerts, n)) \/ ~Subscriptable(Get(new_alerts, n))
    THEN [raised |-> TRUE, changes_detected |-> {}]
    ELSE [raised |-> FALSE,
          changes_detected |->
              {n \in InBoth(old_alerts, new_alerts) :
                  LET old_county_codes == CountyCodes(Get(old_alerts, n))
                      new_county_codes == CountyCodes(Get(new_alerts, n))
                  IN  \/ new_county_codes \ old_county_codes # {}
                      \/ old_county_codes \ new_county_codes # {}}]

(***************************************************************************)
(* The State and the State file                                            *)
(***************************************************************************)
\* load_state's State for a missing file.  last_tailmessage and
\* last_alert_script are created empty there and nothing ever touches them.
EmptyState == [last_alerts |-> << >>, last_sayalert |-> << >>, last_allclear |-> << >>]

NoFile == [kind |-> "missing"]

\* A file holding the complete JSON text of State s.
JsonFile(s) == [kind |-> "json", body |-> s]

\* A file holding a proper prefix of a JSON text.
PartialFile == [kind |-> "partial"]

\* json.dump raises TypeError for anything but dicts, lists, strings, numbers.
Serializable(s) ==
    /\ \A i \in DOMAIN s.last_alerts : Subscriptable(s.last_alerts[i].recs)
    /\ \A i \in DOMAIN s.last_sayalert : Subscriptable(s.last_sayalert[i].recs)

\* A record as json.load returns it.
DictRecord(county_code, event) ==
    [rep |-> "dict", county_code |-> county_code,
     severity |-> determine_severity([event |-> event, severity |-> NoSeverity]),
     event |-> event, end_time_utc |-> EmptyString]

DictEntry(event, codes) ==
    [type |-> event, recs |-> [i \in DOMAIN codes |-> DictRecord(codes[i], event)]]

\* Snapshots found in a State file that is already there when the program
\* starts (data.json in its documented format: lists of record dicts).
PriorSnapshots ==
    { << >>,
      <<DictEntry(TornadoWarning, <<"A">>)>>,
      <<DictEntry(TornadoWarning, <<"A", "B">>)>>,
      <<DictEntry(FloodWatch, <<"B">>)>> }

PriorFiles ==
    {NoFile} \cup
    {JsonFile([last_alerts |-> la, last_sayalert |-> ls, last_allclear |-> << >>]) :
        la \in PriorSnapshots, ls \in PriorSnapshots}

(***************************************************************************)
(* skywarnplus.py: the steps of run as functions of the State              *)
(***************************************************************************)
\* run, lines 75-82: group the records of all zones by event.
RECURSIVE AddAlerts(_, _)
AddAlerts(all_alerts, alerts) ==
    IF alerts = << >> THEN all_alerts
    ELSE AddAlerts(AppendTo(all_alerts, alerts[1].event, alerts[1]), Tail(alerts))

\* GroupAlerts giving up at the first zone without a payload.
RECURSIVE GroupAlertsUntilNone(_, _)
GroupAlertsUntilNone(data, all_alerts) ==
    IF data = << >> \/ data[1].data = None THEN all_alerts
    ELSE GroupAlertsUntilNone(Tail(data),
             AddAlerts(all_alerts, parse_alert_data(data[1].data, data[1].county_code)))

RECURSIVE GroupAlerts(_, _)
GroupAlerts(data, all_alerts) ==
    IF data = << >> THEN all_alerts
    ELSE GroupAlerts(Tail(data),
             IF data[1].data # None
             THEN AddAlerts(all_alerts, parse_alert_data(data[1].data, data[1].county_code))
             ELSE all_alerts)

\* run, line 85: get_blocked_events("Global"), the patterns of the
\* configuration's blocklist.
VARIABLE blocked_events

\* The Snapshot without the call of filter_blocked_alerts.
SnapshotUnfiltered(data) == sort_alerts_by_severity(GroupAlerts(data, << >>))

\* run, lines 74-89: the cycle's Snapshot.
Snapshot(data) ==
    sort_alerts_by_severity(filter_blocked_alerts(GroupAlerts(data, << >>), blocked_events))

\* handle_active_alerts without the test of say_alert.
handle_active_alerts_unconfigured(st, alerts, changes, cfg) ==
    IF changes.changes_detected # {} \/ st.last_sayalert = << >>
    THEN [decision |-> "alert", state |-> [st EXCEPT !.last_sayalert = alerts]]
    ELSE [decision |-> "none", state |-> st]

handle_active_alerts(st, alerts, changes, cfg) ==
    IF cfg.say_alert /\ (changes.changes_detected # {} \/ st.last_sayalert = << >>)
    THEN [decision |-> "alert", state |-> [st EXCEPT !.last_sayalert = alerts]]
    ELSE [decision |-> "none", state |-> st]

\* handle_all_clear without the test of say_all_clear.
handle_all_clear_unconfigured(st, old_alerts, cfg) ==
    IF old_alerts # << >>
    THEN [decision |-> "allclear", state |-> [st EXCEPT !.last_allclear = << >>]]
    ELSE [decision |-> "none", state |-> st]

\* handle_all_clear without the test of old_alerts.
handle_all_clear_unconditional(st, old_alerts, cfg) ==
    IF cfg.say_all_clear
    THEN [decision |-> "allclear", state |-> [st EXCEPT !.last_allclear = << >>]]
    ELSE [decision |-> "none", state |-> st]

\* alert["county_code"] on the old records raises inside the try block, after
\* the announcement and before last_allclear is set; the handler logs it.
handle_all_clear(st, old_alerts, cfg) ==
    IF old_alerts # << >> /\ cfg.say_all_clear
    THEN [decision |-> "allclear",
          state |-> IF \A i \in DOMAIN old_alerts : Subscriptable(old_alerts[i].recs)
                    THEN [st EXCEPT !.last_allclear = << >>]
                    ELSE st]
    ELSE [decision |-> "none", state |-> st]

\* load_state, lines 27-52, for a file that json.load can read: a missing
\* file yields the empty State.
load_state(file) == IF file = NoFile THEN EmptyState ELSE file.body

\* _handle_active_alerts, lines 124-128: one send_alert_notification per
\* type of the Snapshot, in its order, whatever say_alert and changes are.
Notifications(alerts) ==
    [i \in DOMAIN alerts |->
        [alert_type |-> alerts[i].type,
         counties |-> [j \in DOMAIN alerts[i].recs |-> alerts[i].recs[j].county_code],
         severity |-> MaxSeverity(alerts[i])]]

\* The calls of say_alerts / say_all_clear a handler made.
Said(handled) == IF handled.decision = "none" THEN << >> ELSE <<handled.decision>>

\* run with _handle_all_clear called after _handle_active_alerts instead of
\* in its place.
HandleBoth(st, data, cfg) ==
    LET alerts == Snapshot(data)
        old_alerts == st.last_alerts
        changes == detect_county_changes(old_alerts, alerts)
        active == IF alerts # << >>
                  THEN handle_active_alerts(st, alerts, changes, cfg)
                  ELSE [decision |-> "none", state |-> st]
        handled == handle_all_clear(active.state, old_alerts, cfg)
    IN  IF changes.raised
        THEN [sorted_alerts |-> alerts, raised |-> TRUE, decision |-> "none", state |-> st,
              emitted |-> << >>, notified |-> << >>]
        ELSE [sorted_alerts |-> alerts, raised |-> FALSE,
              decision |-> IF handled.decision = "none"
                           THEN active.decision ELSE handled.decision,
              state |-> handled.state,
              emitted |-> Said(active) \o Said(handled),
              notified |-> Notifications(alerts)]

\* run, lines 74-99: Snapshot, change detection and decision.
Handle(st, data, cfg) ==
    LET alerts == Snapshot(data)
        old_alerts == st.last_alerts
        changes == detect_county_changes(old_alerts, alerts)
        handled == IF alerts # << >>
                   THEN handle_active_alerts(st, alerts, changes, cfg)
                   ELSE handle_all_clear(st, old_alerts, cfg)
    IN  IF changes.raised
        THEN [sorted_alerts |-> alerts, raised |-> TRUE, decision |-> "none", state |-> st,
              emitted |-> << >>, notified |-> << >>]
        ELSE [sorted_alerts |-> alerts, raised |-> FALSE,
              decision |-> handled.decision, state |-> handled.state,
              emitted |-> Said(handled),
              notified |-> Notifications(alerts)]

(***************************************************************************)
(* The program state                                                       *)
(***************************************************************************)
VARIABLES
    say_alert,      \* app_config.say_alert
    say_all_clear,  \* app_config.say_all_clear
    max_workers,    \* NWSAPIClient.max_workers
    dataFile,       \* the file at data_file
    tmpFile,        \* the file at data_file + '.tmp'
    pc,             \* where the process is; "idle": no process
    state,          \* SkywarnPlus.state
    loaded,         \* the State as load_state returned it
    cache,          \* StateManager._state_cache
    dirty,          \* StateManager._state_dirty
    alerts_data,    \* run: the result of fetch_alerts_for_counties
    sorted_alerts,  \* run: the cycle's Snapshot
    decision,       \* what the cycle announced: "alert", "allclear" or "none"
    emitted,        \* the process's calls of say_alerts / say_all_clear, in order
    raised,         \* run: an exception is on its way to the caller
    say_result,     \* what say_alerts returned: "sent" or "failed"; "none": not called
    replaces,       \* the number of os.replace calls onto data_file in this cycle
    notified,       \* the send_alert_notification calls of this cycle
    flushError,     \* flush_state raised FileIOError in this cycle
    cleanupNo,      \* 1: cleanup of run's finally, 2: cleanup of __exit__
    runResult,      \* "running", then "returned" or "raised"
    lastFeed,       \* the feed data of the latest cycle
    sameFeed,       \* this cycle's feed data equals the previous cycle's
    hasPrev,        \* a cycle has completed before this one
    prevDecision,   \* the previous cycle's decision
    prevActive,     \* the previous cycle's Snapshot was non-empty
    prevSaid,       \* the previous cycle's say_result
    scenStep,       \* number of cycles of the scenario completed; -1: off it
    scenDec,        \* the decisions of these cycles
    crash,          \* the latest process was killed: its feed data and decision
    rerun,          \* this cycle runs on the feed data of the killed cycle
    applied,        \* the alert_processor function applied on its own; "none"
    args,           \* its arguments
    out,            \* what it returned
    fetchPc,        \* fetch_alerts_for_counties: where the calling thread is
    submitted,      \* the number of zones handed to executor.submit
    worker,         \* per zone: where its fetch_county_alerts call is
    used,           \* per zone: the session _get_session returned to it; 0: none
    client_session, \* NWSAPIClient._session: a session object; 0: None
    sessionObjs,    \* the requests.Session objects created: "bare" or "configured"
    futures,        \* per zone: the result of its future, once done
    request,        \* per zone: the attempts of its session.get, the retries left
                    \* to it and how the latest attempt ended
    calls,          \* per zone: how often fetch_county_alerts was started for it
    fetched         \* fetch_alerts_for_counties: its local alerts_data

vars ==
    <<say_alert, say_all_clear, blocked_events, max_workers, dataFile, tmpFile, pc, state, loaded, cache, dirty,
      alerts_data, sorted_alerts, decision, emitted, raised, say_result, replaces,
      notified, flushError, cleanupNo, runResult,
      lastFeed, sameFeed, hasPrev, prevDecision, prevActive, prevSaid, scenStep, scenDec,
      crash, rerun, applied, args, out,
      fetchPc, submitted, worker, used, client_session, sessionObjs, futures, request,
      calls, fetched>>

configVars == <<say_alert, say_all_clear, blocked_events, max_workers>>

fileVars == <<dataFile, tmpFile>>

cycleVars ==
    <<alerts_data, sorted_alerts, decision, emitted, raised, say_result, replaces, notified>>

historyVars ==
    <<lastFeed, sameFeed, hasPrev, prevDecision, prevActive, prevSaid, scenStep, scenDec,
      crash, rerun>>

\* No process has been killed since the latest complete cycle.
NoCrash == [kind |-> "none"]

pureVars == <<applied, args, out>>

fetchVars ==
    <<fetchPc, submitted, worker, used, client_session, sessionObjs, futures, request, calls,
      fetched>>

\* The variables of the parts modelled on their own, which a cycle's steps
\* leave alone.
unitVars == <<pureVars, fetchVars>>

cfg == [say_alert |-> say_alert, say_all_clear |-> say_all_clear]

\* The feed data of a cycle: what each zone's fetch returned.
FeedOf(data) ==
    [z \in ZoneSet |-> data[CHOOSE i \in DOMAIN data : data[i].county_code = z].data]

\* The result mapping for zone results r, filled in completion order.
AlertsData(order, r) == [i \in DOMAIN order |-> [county_code |-> order[i], data |-> r[order[i]]]]

\* The orders in which the zone fetches can complete.
Orders == {o \in [DOMAIN Zones -> ZoneSet] : \A i, j \in DOMAIN Zones : i # j => o[i] # o[j]}

\* The scenario of four cycles on zones [A, B].
ScenarioFeeds ==
    LET tornadoAtA == [z \in ZoneSet |->
                          IF z = "A"
                          THEN Payload(<<[event |-> TornadoWarning, severity |-> NoSeverity]>>)
                          ELSE Payload(<< >>)]
        quiet == [z \in ZoneSet |-> Payload(<< >>)]
    IN  <<tornadoAtA, tornadoAtA, quiet, quiet>>

\* The state before the first process, with the State file one of files.
\* No session.get has been called for the zone.
NoRequest == [attempts |-> 0, retries |-> 0, outcome |-> "none"]

InitWith(files, blocklists, workers) ==
    /\ say_alert \in BOOLEAN
    /\ say_all_clear \in BOOLEAN
    /\ blocked_events \in blocklists
    /\ max_workers \in workers
    /\ dataFile \in files
    /\ tmpFile = NoFile
    /\ pc = "idle"
    /\ state = EmptyState
    /\ loaded = EmptyState
    /\ cache = EmptyState
    /\ dirty = FALSE
    /\ alerts_data = << >>
    /\ sorted_alerts = << >>
    /\ decision = "none"
    /\ emitted = << >>
    /\ raised = FALSE
    /\ say_result = "none"
    /\ replaces = 0
    /\ notified = << >>
    /\ flushError = FALSE
    /\ cleanupNo = 1
    /\ runResult = "running"
    /\ lastFeed = [z \in ZoneSet |-> None]
    /\ sameFeed = FALSE
    /\ hasPrev = FALSE
    /\ prevDecision = "none"
    /\ prevActive = FALSE
    /\ prevSaid = "none"
    /\ scenStep = IF dataFile = NoFile /\ say_alert /\ say_all_clear THEN 0 ELSE -1
    /\ scenDec = << >>
    /\ crash = NoCrash
    /\ rerun = FALSE
    /\ applied = "none"
    /\ args = << >>
    /\ out = << >>
    /\ fetchPc = "submit"
    /\ submitted = 0
    /\ worker = [z \in ZoneSet |-> "new"]
    /\ used = [z \in ZoneSet |-> 0]
    /\ client_session = 0
    /\ sessionObjs = << >>
    /\ futures = [z \in ZoneSet |-> None]
    /\ request = [z \in ZoneSet |-> NoRequest]
    /\ calls = [z \in ZoneSet |-> 0]
    /\ fetched = << >>

\* The blocklist of the default configuration.
NoBlocklist == << >>

Init == InitWith(PriorFiles, {NoBlocklist}, {DefaultWorkers})

\* No process: nothing is in memory.
NoProcess ==
    /\ state' = EmptyState
    /\ loaded' = EmptyState
    /\ cache' = EmptyState
    /\ dirty' = FALSE
    /\ alerts_data' = << >>
    /\ sorted_alerts' = << >>
    /\ decision' = "none"
    /\ emitted' = << >>
    /\ raised' = FALSE
    /\ say_result' = "none"
    /\ replaces' = 0
    /\ notified' = << >>
    /\ flushError' = FALSE
    /\ cleanupNo' = 1
    /\ runResult' = "running"

\* Start with an unreadable State file taken for the empty State.
StartRepairsFile ==
    /\ pc = "idle"
    /\ LET s == IF dataFile \in {PartialFile, NoFile} THEN EmptyState ELSE dataFile.body
       IN  /\ pc' = "ready"
           /\ state' = s
           /\ loaded' = s
           /\ cache' = s
    /\ dirty' = FALSE
    /\ UNCHANGED <<configVars, unitVars, fileVars, cycleVars, flushError, cleanupNo,
                   runResult, historyVars>>

\* Start with a missing State file treated as an unreadable one.
StartRequiresFile ==
    /\ pc = "idle"
    /\ IF dataFile \in {PartialFile, NoFile}
       THEN /\ pc' = "load_failed"
            /\ UNCHANGED <<state, loaded, cache>>
       ELSE /\ pc' = "ready"
            /\ state' = dataFile.body
            /\ loaded' = dataFile.body
            /\ cache' = dataFile.body
    /\ dirty' = FALSE
    /\ UNCHANGED <<configVars, unitVars, fileVars, cycleVars, flushError, cleanupNo,
                   runResult, historyVars>>

\* load_state called with the process at `at`.  json.load fails on a file
\* that does not hold a complete JSON text.
LoadState(at) ==
    /\ pc = at
    /\ IF dataFile = PartialFile
       THEN /\ pc' = "load_failed"
            /\ UNCHANGED <<state, loaded, cache>>
       ELSE LET s == load_state(dataFile)
            IN  /\ pc' = "ready"
                /\ state' = s
                /\ loaded' = s
                /\ cache' = s
    /\ dirty' = FALSE
    /\ UNCHANGED <<configVars, unitVars, fileVars, cycleVars, flushError, cleanupNo, runResult,
                   historyVars>>

\* SkywarnPlus.__init__, lines 28-52: the components are built and the State
\* is loaded.
Start == LoadState("idle")

\* run, lines 70-72: fetch_alerts_for_counties.  Every zone yields a payload
\* or None; the mapping is filled in the order the fetches complete.
RunFetch ==
    /\ pc = "ready"
    /\ \E r \in [ZoneSet -> ZoneResults], order \in Orders :
          /\ alerts_data' = AlertsData(order, r)
          /\ sameFeed' = (hasPrev /\ r = lastFeed)
          /\ lastFeed' = r
          /\ rerun' = (crash.kind = "killed" /\ crash.feed = r)
          /\ crash' = IF rerun' THEN crash ELSE NoCrash
    /\ pc' = "fetched"
    /\ UNCHANGED <<configVars, unitVars, fileVars, state, loaded, cache, dirty, sorted_alerts,
                   decision, emitted, raised, say_result, replaces, notified, flushError,
                   cleanupNo, runResult, hasPrev, prevDecision, prevActive, prevSaid, scenStep, scenDec>>

\* run, lines 74-99.  An exception of detect_county_changes leaves the try
\* block: save_state is skipped, the finally clause runs cleanup.  In the
\* announce branch say_alerts returns True or False (it catches every
\* exception), and _handle_active_alerts does not read what it returns.
RunHandle ==
    /\ pc = "fetched"
    /\ LET h == Handle(state, alerts_data, cfg)
       IN  /\ sorted_alerts' = h.sorted_alerts
           /\ decision' = h.decision
           /\ emitted' = emitted \o h.emitted
           /\ raised' = h.raised
           /\ say_result' \in (IF h.decision = "alert" THEN {"sent", "failed"} ELSE {"none"})
           /\ notified' = h.notified
           /\ state' = h.state
           /\ pc' = IF h.raised THEN "cleanup" ELSE "handled"
    /\ UNCHANGED <<configVars, unitVars, fileVars, loaded, cache, dirty, alerts_data,
                   replaces, flushError, cleanupNo, runResult, historyVars>>

\* save_state leaving the dirty flag as it is.
RunSaveUnmarked ==
    /\ pc = "handled"
    /\ state' = [state EXCEPT !.last_alerts = sorted_alerts]
    /\ cache' = state'
    /\ pc' = "cleanup"
    /\ UNCHANGED <<configVars, unitVars, fileVars, loaded, dirty, cycleVars, flushError,
                   cleanupNo, runResult, historyVars>>

\* run, lines 101-103, and save_state: the cache takes the State, the dirty
\* flag is set.
RunSave ==
    /\ pc = "handled"
    /\ state' = [state EXCEPT !.last_alerts = sorted_alerts]
    /\ cache' = state'
    /\ dirty' = TRUE
    /\ pc' = "cleanup"
    /\ UNCHANGED <<configVars, unitVars, fileVars, loaded, cycleVars, flushError, cleanupNo,
                   runResult, historyVars>>

\* flush_state writing the cache whether it is dirty or not.
FlushCheckAlways ==
    /\ pc = "cleanup"
    /\ pc' = "flush_open"
    /\ UNCHANGED <<configVars, unitVars, fileVars, state, loaded, cache, dirty, cycleVars,
                   flushError, cleanupNo, runResult, historyVars>>

\* cleanup, flush_state lines 82-84: nothing to do unless dirty.
FlushCheck ==
    /\ pc = "cleanup"
    /\ pc' = IF dirty THEN "flush_open" ELSE "cleanup_end"
    /\ UNCHANGED <<configVars, unitVars, fileVars, state, loaded, cache, dirty, cycleVars,
                   flushError, cleanupNo, runResult, historyVars>>

\* FlushOpen opening the destination itself for writing.
FlushOpenInPlace ==
    /\ pc = "flush_open"
    /\ dataFile' = PartialFile
    /\ pc' = "flush_write"
    /\ UNCHANGED <<configVars, unitVars, tmpFile, state, loaded, cache, dirty, cycleVars,
                   flushError, cleanupNo, runResult, historyVars>>

\* flush_state, line 89: open(temp_file, "w") creates or truncates the
\* temporary file.
FlushOpen ==
    /\ pc = "flush_open"
    /\ tmpFile' = PartialFile
    /\ pc' = "flush_write"
    /\ UNCHANGED <<configVars, unitVars, dataFile, state, loaded, cache, dirty, cycleVars,
                   flushError, cleanupNo, runResult, historyVars>>

\* flush_state, line 90: json.dump writes the text piece by piece and raises
\* TypeError when it comes to a value JSON cannot hold.
FlushWrite ==
    /\ pc = "flush_write"
    /\ IF Serializable(cache)
       THEN /\ tmpFile' = JsonFile(cache)
            /\ pc' = "flush_replace"
       ELSE /\ tmpFile' = PartialFile
            /\ pc' = "flush_failed"
    /\ UNCHANGED <<configVars, unitVars, dataFile, state, loaded, cache, dirty, cycleVars,
                   flushError, cleanupNo, runResult, historyVars>>

\* flush_state, lines 91-92: os.replace renames the temporary file over the
\* destination in one step.
FlushReplace ==
    /\ pc = "flush_replace"
    /\ dataFile' = tmpFile
    /\ tmpFile' = NoFile
    /\ replaces' = replaces + 1
    /\ dirty' = FALSE
    /\ pc' = "cleanup_end"
    /\ UNCHANGED <<configVars, unitVars, state, loaded, cache, alerts_data, sorted_alerts,
                   decision, emitted, raised, say_result, notified, flushError, cleanupNo,
                   runResult, historyVars>>

\* The except clause of flush_state clearing the dirty flag.
FlushFailedClearsDirty ==
    /\ pc = "flush_failed"
    /\ tmpFile' = NoFile
    /\ dirty' = FALSE
    /\ flushError' = TRUE
    /\ pc' = "cleanup_end"
    /\ UNCHANGED <<configVars, unitVars, dataFile, state, loaded, cache, cycleVars,
                   cleanupNo, runResult, historyVars>>

\* flush_state, lines 94-98, and cleanup, lines 164-165: the temporary file
\* is removed, FileIOError is raised, and cleanup logs it.
FlushFailed ==
    /\ pc = "flush_failed"
    /\ tmpFile' = NoFile
    /\ flushError' = TRUE
    /\ pc' = "cleanup_end"
    /\ UNCHANGED <<configVars, unitVars, dataFile, state, loaded, cache, dirty, cycleVars,
                   cleanupNo, runResult, historyVars>>

\* The scenario counter after a cycle on feed data r.
ScenarioNext(r) ==
    IF scenStep >= 0 /\ scenStep < Len(ScenarioFeeds) /\ r = ScenarioFeeds[scenStep + 1]
    THEN scenStep + 1
    ELSE -1

\* cleanup returns.  After the first one run returns or re-raises (lines
\* 107-112) and __exit__ runs cleanup again; after the second the process
\* ends and the cycle is complete.
CleanupEnd ==
    /\ pc = "cleanup_end"
    /\ IF cleanupNo = 1
       THEN /\ runResult' = IF raised THEN "raised" ELSE "returned"
            /\ cleanupNo' = 2
            /\ pc' = "cleanup"
            /\ UNCHANGED <<state, loaded, cache, dirty, cycleVars, flushError, historyVars>>
       ELSE /\ pc' = "idle"
            /\ NoProcess
            /\ hasPrev' = TRUE
            /\ prevDecision' = decision
            /\ prevActive' = (sorted_alerts # << >>)
            /\ prevSaid' = say_result
            /\ scenStep' = ScenarioNext(lastFeed)
            /\ scenDec' = IF scenStep' > 0 THEN Append(scenDec, decision) ELSE << >>
            /\ crash' = NoCrash
            /\ rerun' = FALSE
            /\ UNCHANGED <<lastFeed, sameFeed>>
    /\ UNCHANGED <<configVars, unitVars, fileVars>>

Next ==
    \/ Start
    \/ RunFetch
    \/ RunHandle
    \/ RunSave
    \/ FlushCheck
    \/ FlushOpen
    \/ FlushWrite
    \/ FlushReplace
    \/ FlushFailed
    \/ CleanupEnd

Spec == Init /\ [][Next]_vars

\* flush_state, lines 89-91: open, write or os.replace fails with OSError
\* (no permission, disk full); the files stay as the failing call found them.
FlushIOError ==
    /\ pc \in {"flush_open", "flush_write", "flush_replace"}
    /\ pc' = "flush_failed"
    /\ UNCHANGED <<configVars, unitVars, fileVars, state, loaded, cache, dirty, cycleVars,
                   flushError, cleanupNo, runResult, historyVars>>

\* The process is killed: its memory is gone, the files stay as they are.
Kill ==
    /\ pc \notin {"idle", "load_failed"}
    /\ pc' = "idle"
    /\ NoProcess
    /\ lastFeed' = [z \in ZoneSet |-> None]
    /\ sameFeed' = FALSE
    /\ hasPrev' = FALSE
    /\ prevDecision' = "none"
    /\ prevActive' = FALSE
    /\ prevSaid' = "none"
    /\ scenStep' = -1
    /\ scenDec' = << >>
    /\ crash' = IF pc = "ready"
                THEN NoCrash
                ELSE [kind |-> "killed", feed |-> lastFeed,
                      due |-> Handle(loaded, alerts_data, cfg).decision,
                      said |-> decision]
    /\ rerun' = FALSE
    /\ UNCHANGED <<configVars, unitVars, fileVars>>

NextCrash ==
    \/ Next
    \/ FlushIOError
    \/ Kill

SpecCrash == Init /\ [][NextCrash]_vars

(***************************************************************************)
(* The StateManager from its construction on                               *)
(***************************************************************************)
\* SkywarnPlus.__init__, line 29, StateManager.__init__: the cache is an
\* empty dict, the dirty flag is clear, nothing has been read.
Construct ==
    /\ pc = "idle"
    /\ pc' = "constructed"
    /\ cache' = EmptyState
    /\ dirty' = FALSE
    /\ UNCHANGED <<configVars, unitVars, fileVars, state, loaded, cycleVars, flushError,
                   cleanupNo, runResult, historyVars>>

\* SkywarnPlus.__init__, line 52.
StartLoad == LoadState("constructed")

NextStore ==
    \/ Construct
    \/ StartLoad
    \/ RunFetch
    \/ RunHandle
    \/ RunSave
    \/ FlushCheck
    \/ FlushOpen
    \/ FlushWrite
    \/ FlushReplace
    \/ FlushFailed
    \/ CleanupEnd

SpecStore == Init /\ [][NextStore]_vars

(***************************************************************************)
(* Cycles under a configured blocklist                                     *)
(***************************************************************************)
\* A blocklist of one pattern that every Tornado event matches.
TornadoBlocklist == << <<"Tornado", "*">> >>

Blocklists == {NoBlocklist, TornadoBlocklist}

\* filter_blocked_alerts, line 97: the type matches a pattern of the list.
is_blocked(type, blocked) == \E i \in DOMAIN blocked : fnmatch(type, blocked[i])

\* The State files that cycles under this blocklist can have left: none of
\* their types is blocked.
FilesUnder(blocked) ==
    {f \in PriorFiles :
        f # NoFile
            => \A n \in Keys(f.body.last_alerts) \cup Keys(f.body.last_sayalert) :
                   ~is_blocked(n, blocked)}

InitBlock ==
    \E blocked \in Blocklists : InitWith(FilesUnder(blocked), {blocked}, {DefaultWorkers})

SpecBlock == InitBlock /\ [][Next]_vars

(***************************************************************************)
(* Startup with a State file that is not JSON                              *)
(***************************************************************************)
\* The State file may have been damaged from outside before the program
\* starts: it exists and json.load cannot read it.
InitCorrupt == InitWith(PriorFiles \cup {PartialFile}, {NoBlocklist}, {DefaultWorkers})

\* main, lines 38-43: the FileIOError of __init__ leaves main through
\* sys.exit(1); the with block was never entered, no cleanup runs.
StartupFailed ==
    /\ pc = "load_failed"
    /\ pc' = "idle"
    /\ UNCHANGED <<configVars, unitVars, fileVars, state, loaded, cache, dirty, cycleVars,
                   flushError, cleanupNo, runResult, historyVars>>

NextCorrupt ==
    \/ Next
    \/ StartupFailed

SpecCorrupt == InitCorrupt /\ [][NextCorrupt]_vars

(***************************************************************************)
(* The alert_processor functions applied on their own                      *)
(***************************************************************************)
FloodWarning == <<"Flood", "Warning">>

WindAdvisory == <<"Wind", "Advisory">>

\* The event names of the arguments.
ArgEvents == {TornadoWarning, FloodWatch, FloodWarning, WindAdvisory}

\* The record lists of an AlertType in an argument: one record without a
\* provider severity, or two records of two zones with provider severities.
ArgRecords(e) ==
    { <<AlertData("A", [event |-> e, severity |-> NoSeverity])>>,
      <<AlertData("A", [event |-> e, severity |-> "Minor"]),
        AlertData("B", [event |-> e, severity |-> "Severe"])>> }

ArgEntries ==
    UNION {{[type |-> e, recs |-> recs] : recs \in ArgRecords(e)} : e \in ArgEvents}

\* The grouped alerts of a cycle: entries of distinct AlertTypes.
ArgAlerts ==
    {a \in SeqsUpTo(ArgEntries, MaxTypes) :
        \A i, j \in DOMAIN a : i # j => a[i].type # a[j].type}

\* Blocklist patterns.
ArgPatterns ==
    {<<"Tornado", "*">>, <<"*", "Watch">>, <<"Flood", "?">>, <<"?">>, FloodWatch}

ArgBlocklists == SeqsUpTo(ArgPatterns, MaxPatterns)

InitPure ==
    /\ Init
    /\ dataFile = NoFile
    /\ say_alert
    /\ say_all_clear

ApplyFilter ==
    /\ applied = "none"
    /\ \E alerts \in ArgAlerts, blocked \in ArgBlocklists :
          /\ args' = [alerts |-> alerts, blocked_events |-> blocked]
          /\ out' = filter_blocked_alerts(alerts, blocked)
    /\ applied' = "filter_blocked_alerts"
    /\ UNCHANGED <<configVars, fetchVars, fileVars, pc, state, loaded, cache, dirty,
                   cycleVars, flushError, cleanupNo, runResult, historyVars>>

ApplySort ==
    /\ applied = "none"
    /\ \E alerts \in ArgAlerts :
          /\ args' = [alerts |-> alerts]
          /\ out' = sort_alerts_by_severity(alerts)
    /\ applied' = "sort_alerts_by_severity"
    /\ UNCHANGED <<configVars, fetchVars, fileVars, pc, state, loaded, cache, dirty,
                   cycleVars, flushError, cleanupNo, runResult, historyVars>>

\* Event names with no, one and several of the table's words.
SeverityEvents ==
    { TornadoWarning, FloodWatch, WindAdvisory,
      <<"Special", "Weather", "Statement">>,
      <<"Hurricane", "Watch", "Warning">>,
      <<"Statement", "Advisory">>,
      <<"Air", "Quality", "Alert">>,
      << >> }

\* properties.get('severity'): a keyword of the provider, a word that is
\* none of them, or nothing.
SeverityWords ==
    {"Extreme", "Severe", "Moderate", "Minor", "Unknown", "extreme", "Past", NoSeverity}

ApplySeverity ==
    /\ applied = "none"
    /\ \E e \in SeverityEvents, w \in SeverityWords :
          /\ args' = [event |-> e, severity |-> w]
          /\ out' = determine_severity(args')
    /\ applied' = "determine_severity"
    /\ UNCHANGED <<configVars, fetchVars, fileVars, pc, state, loaded, cache, dirty,
                   cycleVars, flushError, cleanupNo, runResult, historyVars>>

\* What one zone's fetch can return, with several entries in a payload.
ArgZoneResults == {None} \cup {Payload(es) : es \in SeqsUpTo(RawEntries, MaxFeatures)}

\* run, lines 74-89, on a result mapping: group, filter, sort.
ApplySnapshot ==
    /\ applied = "none"
    /\ \E r \in [ZoneSet -> ArgZoneResults], order \in Orders :
          /\ args' = [alerts_data |-> AlertsData(order, r)]
          /\ out' = Snapshot(args'.alerts_data)
    /\ applied' = "Snapshot"
    /\ UNCHANGED <<configVars, fetchVars, fileVars, pc, state, loaded, cache, dirty,
                   cycleVars, flushError, cleanupNo, runResult, historyVars>>

\* The 'ends' texts of the feed: hours up to MaxHour at offsets west of,
\* at and east of UTC, the empty string and a text that is no date.
EndTexts ==
    {EmptyString, Garbled} \cup {TimeString(h, o) : h \in 0 .. MaxHour, o \in {-5, 0, 1}}

\* Raw entries with and without the key 'ends'.
TimedEntries ==
    RawEntries \cup
    {[event |-> e, severity |-> NoSeverity, ends |-> t] : e \in Events, t \in EndTexts}

ApplyParse ==
    /\ applied = "none"
    /\ \E features \in SeqsUpTo(TimedEntries, MaxFeatures), z \in ZoneSet :
          /\ args' = [api_data |-> Payload(features), county_code |-> z]
          /\ out' = parse_alert_data(args'.api_data, z)
    /\ applied' = "parse_alert_data"
    /\ UNCHANGED <<configVars, fetchVars, fileVars, pc, state, loaded, cache, dirty,
                   cycleVars, flushError, cleanupNo, runResult, historyVars>>

NextPure ==
    \/ ApplyFilter
    \/ ApplySort
    \/ ApplySeverity
    \/ ApplySnapshot
    \/ ApplyParse

SpecPure == InitPure /\ [][NextPure]_vars

(***************************************************************************)
(* api_client.py: fetch_alerts_for_counties thread by thread                *)
(***************************************************************************)
\* What a fetch step leaves alone.
cycleRest ==
    <<configVars, pureVars, fileVars, state, loaded, cache, dirty, sorted_alerts,
      decision, emitted, raised, say_result, replaces, notified, flushError, cleanupNo,
      runResult, historyVars>>

\* ThreadPoolExecutor(max_workers=min(len(county_codes), self.max_workers))
PoolSize == IF Len(Zones) < max_workers THEN Len(Zones) ELSE max_workers

\* The zones whose call is running on a thread of the pool.
Running == {z \in ZoneSet : worker[z] \in {"check", "create", "configure", "get"}}

\* The zones that have their slot in the local alerts_data.
Collected == {fetched[i].county_code : i \in DOMAIN fetched}

\* The client as the program constructs it (skywarnplus.py, line 31), and a
\* client constructed with one worker.
WorkerCounts == {1, DefaultWorkers}

InitFetch ==
    /\ InitWith({NoFile}, {NoBlocklist}, WorkerCounts)
    /\ say_alert
    /\ say_all_clear

\* What the steps of the fetch other than the requests leave alone.
fetchRest == <<cycleRest, request, calls>>

\* lines 108-111: executor.submit for the next zone of county_codes.
FetchSubmit ==
    /\ pc = "ready"
    /\ fetchPc = "submit"
    /\ submitted' = submitted + 1
    /\ worker' = [worker EXCEPT ![Zones[submitted']] = "queued"]
    /\ fetchPc' = IF submitted' = Len(Zones) THEN "collect" ELSE "submit"
    /\ UNCHANGED <<fetchRest, pc, alerts_data, used, client_session, sessionObjs, futures,
                   fetched>>

\* WorkerStart with a thread for every submitted call.
WorkerStartUnbounded(z) ==
    /\ worker[z] = "queued"
    /\ worker' = [worker EXCEPT ![z] = "check"]
    /\ calls' = [calls EXCEPT ![z] = @ + 1]
    /\ UNCHANGED <<cycleRest, request, pc, alerts_data, fetchPc, submitted, used,
                   client_session, sessionObjs, futures, fetched>>

\* A thread of the pool takes the zone's call from the queue.
WorkerStart(z) ==
    /\ worker[z] = "queued"
    /\ Cardinality(Running) < PoolSize
    /\ worker' = [worker EXCEPT ![z] = "check"]
    /\ calls' = [calls EXCEPT ![z] = @ + 1]
    /\ UNCHANGED <<cycleRest, request, pc, alerts_data, fetchPc, submitted, used, client_session,
                   sessionObjs, futures, fetched>>

\* _get_session, line 30: the test of self._session, and line 52 if there
\* is a session.
WorkerCheck(z) ==
    /\ worker[z] = "check"
    /\ IF client_session = 0
       THEN /\ worker' = [worker EXCEPT ![z] = "create"]
            /\ used' = used
       ELSE /\ worker' = [worker EXCEPT ![z] = "get"]
            /\ used' = [used EXCEPT ![z] = client_session]
    /\ UNCHANGED <<fetchRest, pc, alerts_data, fetchPc, submitted, client_session,
                   sessionObjs, futures, fetched>>

\* _get_session, line 31: self._session = requests.Session()
WorkerCreate(z) ==
    /\ worker[z] = "create"
    /\ sessionObjs' = Append(sessionObjs, "bare")
    /\ client_session' = Len(sessionObjs')
    /\ worker' = [worker EXCEPT ![z] = "configure"]
    /\ UNCHANGED <<fetchRest, pc, alerts_data, fetchPc, submitted, used, futures, fetched>>

\* _get_session, lines 33-52: mount the adapters on self._session, set its
\* headers and return it.
WorkerConfigure(z) ==
    /\ worker[z] = "configure"
    /\ sessionObjs' = [sessionObjs EXCEPT ![client_session] = "configured"]
    /\ used' = [used EXCEPT ![z] = client_session]
    /\ worker' = [worker EXCEPT ![z] = "get"]
    /\ UNCHANGED <<fetchRest, pc, alerts_data, fetchPc, submitted, client_session, futures,
                   fetched>>

\* How one attempt of a request can end: a response with a body that has
\* 'features', a response with a status of status_forcelist, a response with
\* another error status, no response within the timeout (or no connection),
\* and a response whose body is not a dict with 'features'.
Outcomes ==
    {[kind |-> "ok", data |-> d] : d \in ZoneResults \ {None}} \cup
    {[kind |-> k] : k \in {"forced_status", "error_status", "timeout", "invalid"}}

\* Retry(total=3, status_forcelist=[...]): the adapter sends the request
\* again after a status of the list and after a timeout or connection error,
\* each of them taking one from total.
Retryable == {"forced_status", "timeout"}

\* WorkerGet allowing one attempt more than the retries left.
WorkerGetOneMore(z) ==
    /\ worker[z] = "get"
    /\ \E o \in Outcomes :
          LET left == IF request[z].attempts = 0
                      THEN (IF sessionObjs[used[z]] = "configured" THEN retry_total ELSE 0)
                      ELSE request[z].retries
              again == o.kind \in Retryable /\ left >= 0
          IN  /\ request' = [request EXCEPT ![z] =
                                [attempts |-> @.attempts + 1,
                                 retries |-> IF again THEN left - 1 ELSE left,
                                 outcome |-> o.kind]]
              /\ worker' = IF again THEN worker ELSE [worker EXCEPT ![z] = "done"]
              /\ futures' = [futures EXCEPT ![z] = IF o.kind = "ok" THEN o.data ELSE None]
    /\ UNCHANGED <<cycleRest, calls, pc, alerts_data, fetchPc, submitted, used,
                   client_session, sessionObjs, fetched>>

\* fetch_county_alerts, lines 63-99: one attempt of session.get.  The first
\* attempt goes through the adapter the session has at that moment: the
\* mounted one with its retries, or the default one of a bare session, which
\* has none.  The call returns the payload of a good response and None for
\* everything else: raise_for_status raises for every error status (the test
\* of line 70 is never true), the retries run out, the request times out.
WorkerGet(z) ==
    /\ worker[z] = "get"
    /\ \E o \in Outcomes :
          LET left == IF request[z].attempts = 0
                      THEN (IF sessionObjs[used[z]] = "configured" THEN retry_total ELSE 0)
                      ELSE request[z].retries
              again == o.kind \in Retryable /\ left > 0
          IN  /\ request' = [request EXCEPT ![z] =
                                [attempts |-> @.attempts + 1,
                                 retries |-> IF again THEN left - 1 ELSE left,
                                 outcome |-> o.kind]]
              /\ worker' = IF again THEN worker ELSE [worker EXCEPT ![z] = "done"]
              /\ futures' = [futures EXCEPT ![z] = IF o.kind = "ok" THEN o.data ELSE None]
    /\ UNCHANGED <<cycleRest, calls, pc, alerts_data, fetchPc, submitted, used,
                   client_session, sessionObjs, fetched>>

\* lines 114-116: as_completed yields a finished future; its result goes
\* into the zone's slot.
FetchCollect(z) ==
    /\ pc = "ready"
    /\ fetchPc = "collect"
    /\ worker[z] = "done"
    /\ z \notin Collected
    /\ fetched' = Append(fetched, [county_code |-> z, data |-> futures[z]])
    /\ UNCHANGED <<fetchRest, pc, alerts_data, fetchPc, submitted, worker, used,
                   client_session, sessionObjs, futures>>

\* The loop ends after the first future as_completed yields.
FetchCollectFirstOnly ==
    /\ pc = "ready"
    /\ fetchPc = "collect"
    /\ fetched # << >>
    /\ fetchPc' = "shutdown"
    /\ UNCHANGED <<fetchRest, pc, alerts_data, submitted, worker, used, client_session,
                   sessionObjs, futures, fetched>>

\* line 114: as_completed is exhausted when it has yielded every future.
FetchCollectEnd ==
    /\ pc = "ready"
    /\ fetchPc = "collect"
    /\ Collected = ZoneSet
    /\ fetchPc' = "shutdown"
    /\ UNCHANGED <<fetchRest, pc, alerts_data, submitted, worker, used, client_session,
                   sessionObjs, futures, fetched>>

\* lines 106 and 118: the with block ends in executor.shutdown(wait=True),
\* then the mapping is returned to run (line 72).
FetchReturn ==
    /\ pc = "ready"
    /\ fetchPc = "shutdown"
    /\ \A z \in ZoneSet : worker[z] = "done"
    /\ fetchPc' = "returned"
    /\ alerts_data' = fetched
    /\ pc' = "fetched"
    /\ UNCHANGED <<fetchRest, submitted, worker, used, client_session, sessionObjs,
                   futures, fetched>>

NextFetch ==
    \/ Start
    \/ FetchSubmit
    \/ \E z \in ZoneSet : WorkerStart(z)
    \/ \E z \in ZoneSet : WorkerCheck(z)
    \/ \E z \in ZoneSet : WorkerCreate(z)
    \/ \E z \in ZoneSet : WorkerConfigure(z)
    \/ \E z \in ZoneSet : WorkerGet(z)
    \/ \E z \in ZoneSet : FetchCollect(z)
    \/ FetchCollectEnd
    \/ FetchReturn
    \/ RunHandle

SpecFetch == InitFetch /\ [][NextFetch]_vars

\* The threads of the pool and the calling thread all get to run, and an
\* attempt of a request comes back with a response or with its timeout.
FetchFairness ==
    /\ WF_vars(FetchSubmit)
    /\ \A z \in ZoneSet :
          /\ WF_vars(WorkerStart(z))
          /\ WF_vars(WorkerCheck(z))
          /\ WF_vars(WorkerCreate(z))
          /\ WF_vars(WorkerConfigure(z))
          /\ WF_vars(WorkerGet(z))
          /\ WF_vars(FetchCollect(z))
    /\ WF_vars(FetchCollectEnd)
    /\ WF_vars(FetchReturn)

SpecFetchLive == SpecFetch /\ FetchFairness

(***************************************************************************)
(* Properties                                                              *)
(***************************************************************************)
\* The cycle has made its decision (lines 74-99 have run).
Handled ==
    pc \in {"handled", "cleanup", "flush_open", "flush_write", "flush_replace",
            "flush_failed", "cleanup_end"}

\* The process is about to end: both cleanups are done.
CycleEnd == pc = "cleanup_end" /\ cleanupNo = 2

\* The Change Detector of the design: the AlertTypes present in both
\* Snapshots whose sets of contributing zones differ.
ChangedTypes(old_alerts, new_alerts) ==
    {n \in Keys(old_alerts) \cap Keys(new_alerts) :
        CountyCodes(Get(old_alerts, n)) # CountyCodes(Get(new_alerts, n))}

\* C1: with SayAlert enabled, a cycle whose feed data is identical to the
\* previous cycle's does not emit "alert" if the previous cycle emitted it.
C1_NoRepeatedAlert ==
    (say_alert /\ sameFeed /\ prevDecision = "alert") => decision # "alert"

\* C2: from a cold start with SayAlert and SayAllClear enabled, the cycles on
\* (A:[TornadoWarning], B:[]), the same again, (A:[], B:[]), the same again
\* decide emit-alert, none, emit-all-clear, none, and the Snapshot of cycle 1
\* is {TornadoWarning:[A]}.
C2_Scenario ==
    /\ \A i \in DOMAIN scenDec : scenDec[i] = <<"alert", "none", "allclear", "none">>[i]
    /\ (scenStep = 0 /\ Handled /\ lastFeed = ScenarioFeeds[1])
           => /\ Keys(sorted_alerts) = {TornadoWarning}
              /\ CountyCodes(Get(sorted_alerts, TornadoWarning)) = {"A"}
              /\ Len(Get(sorted_alerts, TornadoWarning)) = 1

\* C3: with SayAllClear enabled, the first cycle with an empty Snapshot after
\* a cycle with a non-empty one emits all-clear, and a cycle with an empty
\* Snapshot after a cycle with an empty Snapshot emits nothing.
C3_OneAllClearPerTransition ==
    (say_all_clear /\ hasPrev /\ Handled /\ sorted_alerts = << >>)
        => decision = (IF prevActive THEN "allclear" ELSE "none")

\* C4: whatever step of flush_state the process is killed at, the State file
\* is only ever replaced by the complete text of the new State, it never
\* holds a partial text, and load_state afterwards succeeds and returns the
\* State of the destination file, whatever the temporary file holds.
C4_AtomicFlush ==
    /\ [](/\ dataFile # PartialFile
          /\ pc # "load_failed"
          /\ pc = "ready" => loaded = (IF dataFile = NoFile THEN EmptyState ELSE dataFile.body))
    /\ [][dataFile' # dataFile => dataFile' = JsonFile(cache)]_vars

\* A process started after a kill in mid-write: the temporary file is left
\* behind with a partial text, the destination was loaded.
C4_Witness == pc = "ready" /\ tmpFile = PartialFile /\ dataFile # NoFile

\* The feed data with every failed zone replaced by a payload without entries.
FailuresEmptied ==
    [z \in ZoneSet |-> IF lastFeed[z] = None THEN Payload(<< >>) ELSE lastFeed[z]]

RecordsOf(z) ==
    {r \in UNION {{e.recs[i] : i \in DOMAIN e.recs} :
                     e \in {sorted_alerts[k] : k \in DOMAIN sorted_alerts}} :
        r.county_code = z}

C6_AlertOnlyIf ==
    decision = "alert" =>
        /\ sorted_alerts # << >>
        /\ say_alert
        /\ \/ loaded.last_sayalert = << >>
           \/ ChangedTypes(loaded.last_alerts, sorted_alerts) # {}
           \/ Keys(sorted_alerts) \ Keys(loaded.last_sayalert) # {}

\* An alert was emitted.
C6_Witness == Handled /\ decision = "alert" /\ say_alert /\ sorted_alerts # << >>

C10_FlushFailurePropagates == flushError => runResult # "returned"

\* The same AlertTypes in the same order, each with the same CountyCodes.
SameSnapshot(a, b) ==
    /\ Len(a) = Len(b)
    /\ \A i \in DOMAIN a :
          /\ a[i].type = b[i].type
          /\ [k \in DOMAIN a[i].recs |-> a[i].recs[k].county_code]
                 = [k \in DOMAIN b[i].recs |-> b[i].recs[k].county_code]

\* C11: when a cycle has completed, the State the next cycle will load from
\* the State file has lastAlerts equal to the cycle's Snapshot and
\* lastSayAlert equal to the cycle's lastSayAlert.
C11_StateRoundTrip ==
    (CycleEnd /\ runResult = "returned" /\ dataFile # PartialFile)
        => /\ SameSnapshot(load_state(dataFile).last_alerts, sorted_alerts)
           /\ SameSnapshot(load_state(dataFile).last_sayalert, state.last_sayalert)

\* C12: when a process is killed at any point of a cycle and the next
\* process runs on the same feed data, the two together announce the decision
\* of the cycle's crash-free execution exactly once: none is announced twice
\* and none is lost.
C12_ExactlyOnceAcrossCrash ==
    (rerun /\ Handled)
        => IF crash.due = "none"
           THEN crash.said = "none" /\ decision = "none"
           ELSE \/ crash.said = crash.due /\ decision = "none"
                \/ crash.said = "none" /\ decision = crash.due

\* Shell-style matching: the pattern's items cut the name into consecutive
\* pieces, "*" taking any piece, "?" a piece of one word, a word itself.
GlobMatch(name, pattern) ==
    \E cut \in [0 .. Len(pattern) -> 0 .. Len(name)] :
        /\ cut[0] = 0
        /\ cut[Len(pattern)] = Len(name)
        /\ \A i \in 1 .. Len(pattern) :
              /\ cut[i - 1] <= cut[i]
              /\ \/ pattern[i] = "*"
                 \/ /\ cut[i] = cut[i - 1] + 1
                    /\ pattern[i] = "?" \/ name[cut[i]] = pattern[i]

\* C13: the output of filter_blocked_alerts is the input restricted to the
\* AlertTypes that match no blocked pattern: a matching type is dropped with
\* all its records, a type matching none stays with its record list as it was.
C13_FilterIsRestriction ==
    applied = "filter_blocked_alerts"
        => out = SelectSeq(args.alerts,
                           LAMBDA e : ~\E j \in DOMAIN args.blocked_events :
                                          GlobMatch(e.type, args.blocked_events[j]))

\* An EXTREME type is dropped by the second pattern while another type stays.
C13_Witness ==
    /\ applied = "filter_blocked_alerts"
    /\ args.blocked_events = <<FloodWatch, <<"Tornado", "*">> >>
    /\ Len(args.alerts) = 2
    /\ args.alerts[1].type = TornadoWarning
    /\ MaxSeverity(args.alerts[1]) = AlertSeverity.EXTREME
    /\ Len(out) = 1
    /\ out[1] = args.alerts[2]

\* The highest severity among an AlertType's records.
Highest(entry) ==
    LET sev == {entry.recs[k].severity : k \in DOMAIN entry.recs}
    IN  CHOOSE m \in sev : \A x \in sev : m >= x

\* Where an AlertType stands in an OrderedDict.
Position(d, type) == CHOOSE i \in DOMAIN d : d[i].type = type

\* Ordered by descending highest severity, ties in the order of d.
SeverityOrdered(sorted, d) ==
    \A i, j \in DOMAIN sorted :
        i < j => \/ Highest(sorted[i]) > Highest(sorted[j])
                 \/ /\ Highest(sorted[i]) = Highest(sorted[j])
                    /\ Position(d, sorted[i].type) < Position(d, sorted[j].type)

\* C14: sort_alerts_by_severity returns the same AlertTypes with the same
\* record lists, ordered by descending highest severity; AlertTypes of equal
\* highest severity keep the order they had in the input.
C14_SortStableDescending ==
    applied = "sort_alerts_by_severity"
        => /\ Len(out) = Len(args.alerts)
           /\ \A i \in DOMAIN args.alerts : \E j \in DOMAIN out : out[j] = args.alerts[i]
           /\ SeverityOrdered(out, args.alerts)

\* Two AlertTypes of highest severity EXTREME behind a SEVERE one in the
\* input: both move to the front and keep their order.
C14_Witness ==
    /\ applied = "sort_alerts_by_severity"
    /\ Len(args.alerts) = MaxTypes
    /\ Highest(args.alerts[1]) = AlertSeverity.SEVERE
    /\ \A i \in 2 .. MaxTypes : Highest(args.alerts[i]) = AlertSeverity.EXTREME
    /\ out[1] = args.alerts[2]
    /\ out[MaxTypes] = args.alerts[1]

ColdOrEmptyStart ==
    /\ cleanupNo = 1
    /\ pc \in {"ready", "fetched", "handled", "cleanup", "flush_open", "flush_write",
              "flush_replace", "flush_failed"}
    /\ dataFile \in {NoFile, JsonFile(EmptyState)}

\* C16: loading a missing State file reports no error, and a cycle started
\* without a State file behaves as one started from a file with explicitly
\* empty lastAlerts, lastSayAlert and lastAllClear: both start from the empty
\* State, make the decision the empty State makes on the feed data and leave
\* the State the empty State leaves, in memory and handed to the flush.
C16_ColdStartIsEmptyState ==
    /\ dataFile = NoFile => pc # "load_failed"
    /\ ColdOrEmptyStart
          => /\ loaded = EmptyState
             /\ pc = "ready" => state = EmptyState /\ cache = EmptyState /\ ~dirty
             /\ pc \notin {"ready", "fetched"}
                   => LET h == Handle(EmptyState, alerts_data, cfg)
                          saved == [h.state EXCEPT !.last_alerts = h.sorted_alerts]
                      IN  /\ ~raised
                          /\ decision = h.decision
                          /\ sorted_alerts = h.sorted_alerts
                          /\ state = IF pc = "handled" THEN h.state ELSE saved
                          /\ pc # "handled" => cache = saved /\ dirty

\* A cycle started without a State file has announced an alert.
C16_Witness ==
    /\ pc = "handled"
    /\ dataFile = NoFile
    /\ decision = "alert"
    /\ state.last_sayalert # << >>

\* Nothing was active before the cycle and nothing is active now.
QuietCycle == loaded.last_alerts = << >> /\ sorted_alerts = << >>

\* C17: a cycle whose loaded lastAlerts and whose Snapshot are both empty
\* emits no decision and leaves the State as it was loaded: lastAlerts stays
\* empty, lastSayAlert and lastAllClear are unchanged, in memory and in the
\* State file the cycle leaves.
C17_QuietCycleChangesNothing ==
    (Handled /\ QuietCycle)
        => /\ ~raised
           /\ decision = "none"
           /\ state = loaded
           /\ CycleEnd => load_state(dataFile) = loaded

\* A quiet cycle has ended whose State carries a lastSayAlert.
C17_Witness ==
    /\ CycleEnd
    /\ QuietCycle
    /\ say_all_clear
    /\ loaded.last_sayalert # << >>
    /\ dataFile = JsonFile(loaded)

\* C18: a cycle emits at most one decision: never an alert and an all-clear
\* together, never the same decision twice.
C18_AtMostOneDecision ==
    /\ Len(emitted) <= 1
    /\ \A i, j \in DOMAIN emitted : i # j => emitted[i] # emitted[j]
    /\ ~(\E i, j \in DOMAIN emitted : emitted[i] = "alert" /\ emitted[j] = "allclear")
    /\ Handled => emitted = (IF decision = "none" THEN << >> ELSE <<decision>>)

\* An alert was announced in a cycle that loaded other AlertTypes as
\* lastAlerts, with SayAllClear enabled.
C18_Witness ==
    /\ CycleEnd
    /\ emitted = <<"alert">>
    /\ say_all_clear
    /\ loaded.last_alerts # << >>

\* Every zone's call has ended and every zone has its one slot, filled with
\* the result of its own call.
JoinComplete ==
    /\ \A z \in ZoneSet : worker[z] = "done"
    /\ Len(fetched) = Cardinality(ZoneSet)
    /\ Collected = ZoneSet
    /\ \A i \in DOMAIN fetched : fetched[i].data = futures[fetched[i].county_code]

\* C19: fetch_alerts_for_counties returns only when every submitted zone
\* fetch has completed or failed, with exactly one slot per zone; the later
\* stages of the cycle work on this mapping and start only after the return.
C19_FetchJoinsAllZones ==
    /\ fetchPc = "returned" => JoinComplete
    /\ pc \notin {"idle", "ready"}
          => /\ fetchPc = "returned"
             /\ \E order \in Orders : alerts_data = AlertsData(order, futures)

\* The cycle has made its decision on a mapping whose second zone completed
\* first and whose first zone failed.
C19_Witness ==
    /\ pc = "handled"
    /\ fetchPc = "returned"
    /\ fetched[1].county_code = Zones[2]
    /\ futures[Zones[1]] = None
    /\ sorted_alerts # << >>

\* C20: under every interleaving of the zone fetches the HTTP session is
\* created and configured at most once, every request goes through the
\* configured session, and a slot of the mapping holds the result its own
\* zone's call produced.
C20_SessionCreatedOnce ==
    /\ Len(sessionObjs) <= 1
    /\ \A z \in ZoneSet :
          worker[z] \in {"get", "done"} => sessionObjs[used[z]] = "configured"
    /\ \A i \in DOMAIN fetched : fetched[i].data = futures[fetched[i].county_code]

\* The severity of the design's ordered fallback: the provider's keyword,
\* else the first table word in the event name, else Unknown.
ResolvedSeverity(event, keyword) ==
    CASE keyword = "Extreme" -> 4
      [] keyword = "Severe" -> 3
      [] keyword = "Moderate" -> 2
      [] keyword = "Minor" -> 1
      [] keyword = "Unknown" -> 0
      [] OTHER ->
           LET has(w) == \E i \in DOMAIN event : event[i] = w
           IN  CASE has("Warning") -> 4
                 [] has("Watch") -> 3
                 [] has("Advisory") -> 2
                 [] has("Statement") -> 1
                 [] OTHER -> 0

\* C21: the resolved severity of a raw entry is the table value of the
\* provider's severity keyword when it is one of Extreme, Severe, Moderate,
\* Minor, Unknown; otherwise the value of the first of Warning, Watch,
\* Advisory, Statement contained in the event name; otherwise Unknown.
C21_SeverityResolution ==
    applied = "determine_severity" => out = ResolvedSeverity(args.event, args.severity)

\* The provider says Unknown for an event name with "Warning": Unknown wins.
C21_Witness ==
    /\ applied = "determine_severity"
    /\ args.severity = "Unknown"
    /\ args.event = TornadoWarning
    /\ out = AlertSeverity.UNKNOWN

\* C22: with a State file that exists and cannot be parsed, startup fails
\* with the error of load_state, which no zone fetch failure produces: no
\* cycle runs, nothing is fetched or announced, and the file is left as it
\* is, neither repaired nor overwritten.
C22_CorruptStateIsFatal ==
    /\ [](dataFile = PartialFile
            => /\ pc \in {"idle", "load_failed"}
               /\ alerts_data = << >>
               /\ emitted = << >>
               /\ decision = "none"
               /\ ~dirty)
    /\ [](pc = "load_failed" => dataFile = PartialFile)
    /\ [][dataFile = PartialFile => dataFile' = PartialFile /\ tmpFile' = tmpFile]_vars

\* Startup has failed on the unreadable State file.
C22_Witness == pc = "load_failed" /\ dataFile = PartialFile /\ say_alert

\* The State a load would observe equals the cached State.
DiskIsCache == load_state(dataFile) = cache

C25_SayAlertRecorded ==
    (CycleEnd /\ sorted_alerts # << >>)
        => LET persisted == load_state(dataFile).last_sayalert
           IN  IF decision = "alert"
               THEN /\ state.last_sayalert = sorted_alerts
                    /\ SameSnapshot(persisted, sorted_alerts)
               ELSE /\ state.last_sayalert = loaded.last_sayalert
                    /\ persisted = loaded.last_sayalert

\* C26: an all-clear is emitted only in a cycle with an empty Snapshot, a
\* non-empty loaded lastAlerts and SayAllClear enabled; never in the first
\* run from a missing State file, never with SayAllClear disabled.
C26_AllClearOnlyIf ==
    /\ \A i \in DOMAIN emitted :
          emitted[i] = "allclear"
              => /\ sorted_alerts = << >>
                 /\ loaded.last_alerts # << >>
                 /\ say_all_clear
    /\ decision = "allclear" => emitted = <<"allclear">>
    /\ (~hasPrev /\ loaded = EmptyState /\ dataFile = NoFile) => decision # "allclear"

\* An all-clear has been announced for AlertTypes a State file carried.
C26_Witness ==
    /\ CycleEnd
    /\ emitted = <<"allclear">>
    /\ loaded.last_alerts # << >>
    /\ dataFile = JsonFile(state)

\* The zones whose fetch failed in this cycle.
FailedZones == {z \in ZoneSet : lastFeed[z] = None}

C28_CompletionOrderIrrelevant ==
    Handled
        => \A order \in Orders :
               LET h == Handle(loaded, AlertsData(order, lastFeed), cfg)
               IN  /\ h.sorted_alerts = sorted_alerts
                   /\ h.decision = decision
                   /\ h.raised = raised
                   /\ pc = "handled" => h.state = state

\* C29: in every Snapshot the record list of an AlertType is non-empty and
\* holds at most one record per CountyCode, also when the payload of a zone
\* has several entries with the same event name.
C29_OneRecordPerZone ==
    applied = "Snapshot"
        => \A i \in DOMAIN out :
               /\ out[i].recs # << >>
               /\ \A j, k \in DOMAIN out[i].recs :
                      j # k => out[i].recs[j].county_code # out[i].recs[k].county_code

\* The type matches a pattern of the configured blocklist.
Blocked(type) == \E i \in DOMAIN blocked_events : GlobMatch(type, blocked_events[i])

\* The blocked types among the keys of a Snapshot.
BlockedIn(d) == {n \in Keys(d) : Blocked(n)}

\* C30: a blocked AlertType is invisible to the cycle after the filter: it
\* is in no Snapshot, in no lastAlerts or lastSayAlert in memory or in the
\* State file, it is never reported by the Change Detector, and a cycle whose
\* only active AlertTypes are blocked is decided exactly like a cycle with an
\* empty Snapshot.
C30_BlockedTypeInvisible ==
    /\ \A st \in {state, cache, load_state(dataFile)} :
          BlockedIn(st.last_alerts) \cup BlockedIn(st.last_sayalert) = {}
    /\ Handled
          => LET active == Keys(GroupAlerts(alerts_data, << >>))
                 changes == detect_county_changes(loaded.last_alerts, sorted_alerts)
                 quiet == Handle(loaded, << >>, cfg)
             IN  /\ BlockedIn(sorted_alerts) = {}
                 /\ \A n \in changes.changes_detected : ~Blocked(n)
                 /\ (active # {} /\ \A n \in active : Blocked(n))
                       => /\ sorted_alerts = << >>
                          /\ raised = quiet.raised
                          /\ decision = quiet.decision
                          /\ emitted = quiet.emitted
                          /\ pc = "handled" => state = quiet.state

\* A cycle under the Tornado blocklist got a Tornado Warning and a Flood
\* Watch from the feed and announced the Flood Watch alone.
C30_Witness ==
    /\ CycleEnd
    /\ blocked_events = TornadoBlocklist
    /\ Keys(GroupAlerts(alerts_data, << >>)) = {TornadoWarning, FloodWatch}
    /\ Keys(sorted_alerts) = {FloodWatch}
    /\ emitted = <<"alert">>

\* Between the Snapshots of two feeds at least one AlertType disappears, at
\* least one remains, every remaining type keeps its set of zones and no type
\* is new.
Reduced(prev, new) ==
    LET old == Snapshot(AlertsData(Zones, prev))
        cur == Snapshot(AlertsData(Zones, new))
    IN  /\ Keys(cur) # {}
        /\ Keys(cur) \subseteq Keys(old)
        /\ Keys(cur) # Keys(old)
        /\ \A n \in Keys(cur) : CountyCodes(Get(cur, n)) = CountyCodes(Get(old, n))

\* C31: when the feed of a cycle is the previous cycle's feed reduced by at
\* least one AlertType, the cycle runs to its end, emits no decision, saves
\* the reduced Snapshot as lastAlerts and keeps every disappeared type in
\* lastSayAlert.
C31_ReducedSnapshotIsSilent ==
    [][(pc = "ready" /\ pc' = "fetched" /\ hasPrev /\ Reduced(lastFeed, lastFeed'))
          => LET h == Handle(state, alerts_data', cfg)
                 gone == Keys(Snapshot(AlertsData(Zones, lastFeed))) \ Keys(h.sorted_alerts)
             IN  /\ ~h.raised
                 /\ h.decision = "none"
                 /\ h.emitted = << >>
                 /\ gone \subseteq Keys(h.state.last_sayalert)]_vars

\* C32: a cycle that takes the announce branch sets lastSayAlert to its
\* Snapshot whether say_alerts succeeded or failed, and the cycle after a
\* failed announcement, on the same feed data, does not announce again.
C32_FailedAnnouncementNotRetried ==
    /\ (Handled /\ say_result # "none") => state.last_sayalert = sorted_alerts
    /\ (Handled /\ hasPrev /\ prevSaid = "failed" /\ sameFeed) => decision # "alert"

\* C33: within a cycle the State file changes only by the os.replace of a
\* flush, which comes after the cycle's decision, and there is at most one
\* os.replace per cycle: after a flush that succeeded, a later cleanup writes
\* nothing.
C33_FileReplacedAtMostOnce ==
    /\ [](replaces <= 1)
    /\ [][/\ dataFile' # dataFile => (pc = "flush_replace" /\ replaces' = replaces + 1)
          /\ (replaces = 1 /\ replaces' = 1) => (dataFile' = dataFile /\ tmpFile' = tmpFile)]_vars

\* Both cleanups of a cycle are done, the first one flushed a State that
\* differs from the loaded one, the second one wrote nothing.
C33_Witness ==
    /\ CycleEnd
    /\ replaces = 1
    /\ dataFile = JsonFile(cache)
    /\ cache # loaded
    /\ ~dirty

\* C34: when flush_state fails in writing the temporary file or in renaming
\* it, the State file is the one the cycle loaded, the temporary file is
\* removed, the dirty flag stays set, FileIOError is raised, and the next
\* flush_state of the process writes again.
C34_FailedFlushKeepsFileAndDirty ==
    /\ [](pc = "flush_failed" => (dirty /\ replaces = 0 /\ load_state(dataFile) = loaded))
    /\ [][/\ (pc = "flush_failed" /\ pc' # "idle")
                => (dataFile' = dataFile /\ tmpFile' = NoFile /\ dirty' /\ flushError')
          /\ (pc = "cleanup" /\ flushError /\ pc' # "idle") => pc' = "flush_open"]_vars

\* The flush of the first cleanup failed with the temporary file half
\* written, and the second cleanup has begun to write the State again.
C34_Witness ==
    /\ pc = "flush_write"
    /\ cleanupNo = 2
    /\ flushError
    /\ dirty
    /\ tmpFile = PartialFile
    /\ load_state(dataFile) = loaded

HasEndTime(properties) == "ends" \in DOMAIN properties /\ properties.ends.kind = "time"

\* C36: parse_alert_data returns one record per entry of the payload, each
\* with the zone, the event and the severity of its entry; the record of an
\* entry whose end time is missing or cannot be parsed carries the empty
\* endTimeUtc.
C36_InvalidTimeKeepsRecord ==
    applied = "parse_alert_data"
        => LET features == args.api_data.features
           IN  /\ Len(out) = Len(features)
               /\ \A i \in DOMAIN features :
                      /\ out[i].county_code = args.county_code
                      /\ out[i].event = features[i].event
                      /\ out[i].severity = determine_severity(features[i])
                      /\ ~HasEndTime(features[i]) => out[i].end_time_utc = EmptyString

\* A payload whose first entry has a text that is no date for its end time
\* and whose second entry has an end time: two records came out, the first
\* with the empty endTimeUtc, the second with a time.
C36_Witness ==
    /\ applied = "parse_alert_data"
    /\ Len(args.api_data.features) = 2
    /\ "ends" \in DOMAIN args.api_data.features[1]
    /\ args.api_data.features[1].ends = Garbled
    /\ HasEndTime(args.api_data.features[2])
    /\ Len(out) = 2
    /\ out[1].end_time_utc = EmptyString
    /\ out[2].end_time_utc # EmptyString

\* The instant a time text denotes, in hours on the UTC clock.
Instant(text) == text.wall - text.offset

\* C39: for every entry with a parsable end time, at whatever offset from
\* UTC, endTimeUtc is a UTC time that denotes the instant of the entry's end
\* time.
C39_EndTimeIsSameInstantInUtc ==
    applied = "parse_alert_data"
        => \A i \in DOMAIN out :
               HasEndTime(args.api_data.features[i])
                   => /\ out[i].end_time_utc.kind = "time"
                      /\ out[i].end_time_utc.offset = 0
                      /\ Instant(out[i].end_time_utc) = Instant(args.api_data.features[i].ends)

\* C38: at every moment of fetch_alerts_for_counties at most
\* min(number of zones, worker count) zone fetches are in progress, no zone
\* of the list is fetched twice, and when the call returns every zone has
\* been fetched once.
C38_BoundedWorkersOneFetchPerZone ==
    /\ Cardinality(Running) <= Len(Zones)
    /\ Cardinality(Running) <= max_workers
    /\ \A z \in ZoneSet : calls[z] <= 1
    /\ fetchPc = "returned" => \A z \in ZoneSet : calls[z] = 1 /\ request[z].attempts >= 1

\* A client with one worker: the request of one zone is on its way while the
\* other zone's call waits in the queue for the thread.
C38_Witness ==
    /\ max_workers = 1
    /\ \E z \in ZoneSet : worker[z] = "get" /\ request[z].attempts >= 1
    /\ \E z \in ZoneSet : worker[z] = "queued"

\* The call of fetch_alerts_for_counties has returned a mapping with a slot
\* for every zone.
FetchDone ==
    /\ fetchPc = "returned"
    /\ {alerts_data[i].county_code : i \in DOMAIN alerts_data} = ZoneSet

\* What C37 says of termination, of the number of attempts, of the result of
\* a zone and of sibling zones.
FetchTerminates ==
    /\ (pc = "ready") ~> FetchDone
    /\ [](\A z \in ZoneSet :
            /\ request[z].attempts <= 1 + retry_total
            /\ worker[z] = "done" => futures[z] \in ZoneResults)
    /\ \A z \in ZoneSet :
          (worker[z] = "get") ~> (\A y \in ZoneSet \ {z} : worker[y] = "done")
    /\ [](max_workers >= Len(Zones)
            => \A z \in ZoneSet : worker[z] = "queued" => ENABLED WorkerStart(z))

\* C37 as stated: every call of fetch_alerts_for_counties terminates with a
\* result for every zone; a zone makes at most 1 + 3 attempts and then
\* yields a payload or absent; a further attempt is made only after a status
\* of 429, 500, 502, 503, 504; a zone waiting for its timeout does not keep
\* its siblings from completing.
C37_FetchTerminates_AsStated ==
    /\ FetchTerminates
    /\ [][\A z \in ZoneSet :
            (request[z].attempts >= 1 /\ request'[z].attempts > request[z].attempts)
                => request[z].outcome = "forced_status"]_vars

\* C37: every call of fetch_alerts_for_counties terminates with a result
\* for every zone; a zone makes at most 1 + 3 attempts and then yields a
\* payload or absent; a further attempt is made only after a status of 429,
\* 500, 502, 503, 504 or after an attempt that timed out or failed to
\* connect; a zone waiting for its timeout does not keep its siblings from
\* completing.
C37_FetchTerminates ==
    /\ FetchTerminates
    /\ [][\A z \in ZoneSet :
            (request[z].attempts >= 1 /\ request'[z].attempts > request[z].attempts)
                => request[z].outcome \in {"forced_status", "timeout"}]_vars

\* The call has returned: the first zone ran into its timeout four times and
\* is absent, the second zone has its payload from the first attempt.
C37_Witness ==
    /\ FetchDone
    /\ request[Zones[1]] = [attempts |-> 1 + retry_total, retries |-> 0, outcome |-> "timeout"]
    /\ futures[Zones[1]] = None
    /\ request[Zones[2]].attempts = 1
    /\ futures[Zones[2]] # None


=============================================================================
